---- MODULE Spec2Model ----
(***************************************************************************)
(* Geometry (src/rendering/renderers/shared/geometry/Geometry.ts): the     *)
(* attribute map, the buffers list, the index buffer, the lazily computed  *)
(* bounds and the destroy lifecycle, together with the event emitters the  *)
(* Geometry and its Buffers are.  And the color-dodge blend filter          *)
(* (src/rendering/filters/blend-modes/ColorDodgeBlend.ts): the shader       *)
(* functions it hands to the WebGL and to the WebGPU backend.               *)
(*                                                                         *)
(* JavaScript is single threaded and every call runs to completion, so one *)
(* action is one top-level call.  A call is a sequence of statements; each *)
(* statement is an operator from a machine state S (a record holding every *)
(* variable plus the call's own exception flag, return value and event     *)
(* log) to the next machine state.  A statement does nothing once the call *)
(* has thrown.                                                              *)
(***************************************************************************)
EXTENDS Integers, Sequences, FiniteSets, TLC

VARIABLES
    attributes,    \* g -> the ordered attribute map (insertion order), Geometry.ts:127
    buffers,       \* g -> the buffers array, Geometry.ts:129
    indexBuffer,   \* g -> the index buffer, NoBuffer while never set, Geometry.ts:131
    nulled,        \* g -> the fields that hold null (destroy writes them), Geometry.ts:290-293
    boundsDirty,   \* g -> _boundsDirty, Geometry.ts:145
    listeners,     \* g -> the Geometry's own EventEmitter registrations
    bufListeners,  \* b -> the Buffer's EventEmitter registrations (contexts, per event)
    bufLen,        \* b -> buffer.data.length
    bufDestroyed,  \* b -> the buffer reports itself destroyed
    nextBuffer,    \* the next Buffer object to be allocated
    nextListener,  \* the next listener registration
    pending,       \* history: g -> a buffer of a current attribute changed since the last recomputation
    changed,       \* history: g -> constructed, or a subscribed buffer notified, since the last bounds read
    got,           \* history: listener -> 'destroy' deliveries received (saturates at 2)
    last,          \* the last top-level call: what it was, what it returned, what it emitted
    pixel,         \* the shader inputs: back, front and the uniform uBlend
    fragColor,     \* what the gl main wrote, ColorDodgeBlend.ts:32
    out            \* what the gpu main wrote, ColorDodgeBlend.ts:54

vars == <<attributes, buffers, indexBuffer, nulled, boundsDirty, listeners, bufListeners,
          bufLen, bufDestroyed, nextBuffer, nextListener, pending, changed, got, last,
          pixel, fragColor, out>>

(***************************************************************************)
(* Bounds of the model.                                                     *)
(***************************************************************************)
NumBuffers == 2
MaxBuffersLen == 3
MaxListeners == 1
Denominator == 2
MaxSharedLen == 2

BufferIds == 1..NumBuffers
ListenerIds == 1..MaxListeners
Geoms == DOMAIN boundsDirty

Names == {"aPosition", "aUv"}
Lens == {6, 7}
RawLen == 6
Events == {"update", "change"}

NoBuffer == 0
Absent == 0
FieldNames == {"attributes", "buffers", "indexBuffer", "_bounds"}

\* What addAttribute may be given besides the buffer: declared size and stride (bytes).
AttributeFormats == {[size |-> 2, stride |-> Absent]}
\* The formats and array lengths getSize is tried on.
SizeFormats == {[size |-> s, stride |-> st] : s \in {Absent, 2, 3}, st \in {Absent, 8, 12}}

Range(s) == {s[i] : i \in 1..Len(s)}
indexOf(s, x) == IF x \in Range(s) THEN CHOOSE i \in 1..Len(s) : s[i] = x /\ \A j \in 1..(i - 1) : s[j] # x ELSE -1

RECURSIVE Gcd(_, _)
Gcd(a, b) == IF b = 0 THEN a ELSE Gcd(b, a % b)

(***************************************************************************)
(* JavaScript values a call returns.                                        *)
(***************************************************************************)
Value(kind, num, den) == [kind |-> kind, num |-> num, den |-> den]
Void == Value("void", 0, 1)
Undefined == Value("undefined", 0, 1)
Null == Value("null", 0, 1)
NaN == Value("NaN", 0, 1)
Number(n, d) == IF d = 0 THEN (IF n = 0 THEN NaN ELSE Value("Infinity", 0, 1))
                ELSE Value("number", n \div Gcd(n, d), d \div Gcd(n, d))
BufferRef(b) == IF b = NoBuffer THEN Undefined ELSE Value("buffer", b, 1)
BoundsRef(S, g) == IF "_bounds" \in S.nulled[g] THEN Null ELSE Value("bounds", g, 1)

Throw(S) == [S EXCEPT !.threw = TRUE, !.val = Void]

AttrBuffers(S, g) == {S.attributes[g][i].buffer : i \in 1..Len(S.attributes[g])}
RefBuffers(S, g) == AttrBuffers(S, g) \cup ({S.indexBuffer[g]} \ {NoBuffer})
Live(S, g) == S.nulled[g] = {}

(***************************************************************************)
(* ensureIsBuffer (./utils/ensureIsBuffer): a Buffer is returned as it is,  *)
(* anything else is wrapped into a new Buffer.                              *)
(***************************************************************************)
ensureIsBuffer(S, input) ==
    IF input.raw
    THEN [S |-> [S EXCEPT !.nextBuffer = @ + 1, !.bufLen[S.nextBuffer] = input.len],
          buffer |-> S.nextBuffer]
    ELSE [S |-> S, buffer |-> input.buffer]

ensureIsAttribute(S, option) ==
    LET r == ensureIsBuffer(S, option.input)
    IN  [S |-> r.S,
         attribute |-> [buffer |-> r.buffer, size |-> option.size, stride |-> option.stride]]

\* buffer.on(event, this.onBufferUpdate, this)
bufferOn(S, b, event, g) == [S EXCEPT !.bufListeners[b][event] = Append(@, g)]

\* this.attributes[name] = attribute: a new key goes last, an old key keeps its place.
setAttribute(S, g, name, attribute) ==
    LET as == S.attributes[g]
        at == {i \in 1..Len(as) : as[i].name = name}
        entry == [name |-> name, buffer |-> attribute.buffer,
                  size |-> attribute.size, stride |-> attribute.stride]
    IN  IF "attributes" \in S.nulled[g] THEN Throw(S)
        ELSE IF at = {} THEN [S EXCEPT !.attributes[g] = Append(as, entry)]
        ELSE [S EXCEPT !.attributes[g] = [i \in 1..Len(as) |-> IF i \in at THEN entry ELSE as[i]]]

\* The new-buffer branch without the push: subscribed, but not listed.
subscribeNewBuffer_NoPush(S, g, b) == bufferOn(bufferOn(S, b, "update", g), b, "change", g)

subscribeNewBuffer(S, g, b) ==
    LET S1 == [S EXCEPT !.buffers[g] = Append(@, b)]
        S2 == bufferOn(S1, b, "update", g)
    IN  bufferOn(S2, b, "change", g)

\* An addAttribute that takes the buffer in without looking it up in `buffers`.
addAttribute_Unchecked(S, g, name, option) ==
    LET r == ensureIsAttribute(S, option)
    IN  IF "buffers" \in r.S.nulled[g] THEN Throw(r.S)
        ELSE setAttribute(subscribeNewBuffer(r.S, g, r.attribute.buffer), g, name, r.attribute)

addAttribute(S, g, name, option) ==
    LET r == ensureIsAttribute(S, option)
        b == r.attribute.buffer
        S1 == r.S
    IN  IF "buffers" \in S1.nulled[g] THEN Throw(S1)
        ELSE LET S2 == IF indexOf(S1.buffers[g], b) = -1 THEN subscribeNewBuffer(S1, g, b) ELSE S1
             IN  setAttribute(S2, g, name, r.attribute)

\* addIndex as addAttribute takes a buffer in: pushed only when `buffers` lacks it.
addIndex_PushNew(S, g, input) ==
    LET r == ensureIsBuffer(S, input)
        S1 == [r.S EXCEPT !.indexBuffer[g] = r.buffer, !.nulled[g] = @ \ {"indexBuffer"}]
    IN  IF "buffers" \in S1.nulled[g] THEN Throw(S1)
        ELSE IF indexOf(S1.buffers[g], r.buffer) = -1
        THEN [S1 EXCEPT !.buffers[g] = Append(@, r.buffer)]
        ELSE S1

addIndex(S, g, input) ==
    LET r == ensureIsBuffer(S, input)
        S1 == [r.S EXCEPT !.indexBuffer[g] = r.buffer, !.nulled[g] = @ \ {"indexBuffer"}]
    IN  IF "buffers" \in S1.nulled[g] THEN Throw(S1)
        ELSE [S1 EXCEPT !.buffers[g] = Append(@, r.buffer)]

(***************************************************************************)
(* The getters.                                                             *)
(***************************************************************************)
attributeAt(S, g, id) == {i \in 1..Len(S.attributes[g]) : S.attributes[g][i].name = id}

getAttribute(S, g, id) ==
    IF "attributes" \in S.nulled[g] THEN Throw(S)
    ELSE IF attributeAt(S, g, id) = {} THEN [S EXCEPT !.val = Undefined]
    ELSE [S EXCEPT !.val = Value("attribute", CHOOSE i \in attributeAt(S, g, id) : TRUE, 1)]

getIndex(S, g) ==
    [S EXCEPT !.val = IF "indexBuffer" \in S.nulled[g] THEN Null ELSE BufferRef(S.indexBuffer[g])]

getBuffer(S, g, id) ==
    LET S1 == getAttribute(S, g, id)
    IN  IF S1.threw THEN S1
        ELSE IF S1.val = Undefined THEN Throw(S1)
        ELSE [S1 EXCEPT !.val = BufferRef(S.attributes[g][S1.val.num].buffer)]

\* (attribute.stride / 4) || attribute.size, as the fraction num/den; den = 0 stands for
\* a divisor that is undefined.
perVertex(attribute) ==
    IF attribute.stride # Absent THEN [num |-> attribute.stride, den |-> 4]
    ELSE IF attribute.size # Absent THEN [num |-> attribute.size, den |-> 1]
    ELSE [num |-> 0, den |-> 0]

getSize(S, g) ==
    IF "attributes" \in S.nulled[g] \/ Len(S.attributes[g]) = 0
    THEN [S EXCEPT !.val = Number(0, 1)]
    ELSE LET attribute == S.attributes[g][1]
             length == S.bufLen[attribute.buffer]
             d == perVertex(attribute)
         IN  [S EXCEPT !.val = IF d.den = 0 THEN NaN ELSE Number(length * d.den, d.num)]

(***************************************************************************)
(* getGeometryBounds (./utils/getGeometryBounds): asks the geometry for the *)
(* position attribute and writes the box into the Bounds it was handed,     *)
(* which it returns.                                                        *)
(***************************************************************************)
getGeometryBounds(S, g, id) ==
    LET S1 == getAttribute(S, g, id)
    IN  IF S1.threw THEN S1
        ELSE [S1 EXCEPT !.pending[g] = FALSE, !.val = BoundsRef(S, g)]

clearBoundsDirty(S, g) == [S EXCEPT !.boundsDirty[g] = FALSE]

ReadRecord(S0, S1, g, calc) ==
    [g |-> g, live |-> Live(S0, g), changed |-> S0.changed[g], calc |-> calc,
     cached |-> S1.val = BoundsRef(S0, g), threw |-> S1.threw]

bounds(S, g) ==
    IF S.threw THEN S
    ELSE IF ~S.boundsDirty[g]
    THEN LET S1 == [S EXCEPT !.val = BoundsRef(S, g), !.changed[g] = FALSE]
         IN  [S1 EXCEPT !.reads = Append(@, ReadRecord(S, S1, g, 0))]
    ELSE LET S1 == getGeometryBounds(clearBoundsDirty(S, g), g, "aPosition")
             S2 == [S1 EXCEPT !.changed[g] = FALSE]
         IN  [S2 EXCEPT !.reads = Append(@, ReadRecord(S, S1, g, 1))]

(***************************************************************************)
(* The Geometry as an event emitter, and onBufferUpdate.                    *)
(***************************************************************************)
geometryOn(S, g, event, kind) ==
    [S EXCEPT !.listeners[g][event] =
                  Append(@, [id |-> S.nextListener, kind |-> kind, live |-> Live(S, g)]),
              !.nextListener = @ + 1]

callUpdateListener(S, g, l) == IF l.kind = "read" THEN bounds(S, g) ELSE S

RECURSIVE emitUpdateFrom(_, _, _, _)
emitUpdateFrom(S, g, ls, i) ==
    IF i > Len(ls) \/ S.threw THEN S
    ELSE emitUpdateFrom(callUpdateListener(S, g, ls[i]), g, ls, i + 1)

emitUpdate(S, g) ==
    emitUpdateFrom([S EXCEPT !.emitted = Append(@, g)], g, S.listeners[g].update, 1)

\* A handler that forgets the flag.
markBoundsDirty_Forgotten(S, g) == S

markBoundsDirty(S, g) == [S EXCEPT !.boundsDirty[g] = TRUE]

\* A handler that tells the listeners first and sets the flag afterwards.
onBufferUpdate_EmitFirst(S, g) ==
    LET S1 == emitUpdate(S, g)
    IN  IF S.threw \/ S1.threw THEN S1 ELSE markBoundsDirty(S1, g)

onBufferUpdate(S, g) ==
    IF S.threw THEN S ELSE emitUpdate(markBoundsDirty(S, g), g)

Destroyed(S) == {b \in BufferIds : S.bufDestroyed[b]}

callDestroyListener(S, g, l) ==
    [S EXCEPT !.seen = Append(@, [id |-> l.id, live |-> l.live, payload |-> g,
                                  nulled |-> S.nulled[g], destroyed |-> Destroyed(S)]),
              !.got[l.id] = IF @ < 2 THEN @ + 1 ELSE @]

RECURSIVE emitDestroyFrom(_, _, _, _)
emitDestroyFrom(S, g, ls, i) ==
    IF i > Len(ls) \/ S.threw THEN S
    ELSE emitDestroyFrom(callDestroyListener(S, g, ls[i]), g, ls, i + 1)

emitDestroy(S, g) == emitDestroyFrom(S, g, S.listeners[g].destroy, 1)

removeAllListeners(S, g) ==
    IF S.threw THEN S ELSE [S EXCEPT !.listeners[g] = [update |-> <<>>, destroy |-> <<>>]]

(***************************************************************************)
(* destroy.                                                                 *)
(***************************************************************************)
\* Buffer.destroy (../buffer/Buffer): the buffer reports itself destroyed.
bufferDestroy(S, b) == [S EXCEPT !.bufDestroyed[b] = TRUE]

RECURSIVE destroyEach(_, _, _)
destroyEach(S, bs, i) ==
    IF i > Len(bs) THEN S ELSE destroyEach(bufferDestroy(S, bs[i]), bs, i + 1)

\* The buffers destroyed whatever the argument says.
destroyBuffersOf_Always(S, g, destroyBuffers) ==
    IF S.threw THEN S
    ELSE IF "buffers" \in S.nulled[g] THEN Throw(S)
    ELSE destroyEach(S, S.buffers[g], 1)

\* A destroy that spares the buffers another live Geometry still references.
destroyBuffersOf_Counted(S, g, destroyBuffers) ==
    LET Unshared(b) == \A h \in DOMAIN S.nulled \ {g} : ~Live(S, h) \/ b \notin RefBuffers(S, h)
    IN  IF S.threw \/ ~destroyBuffers THEN S
        ELSE IF "buffers" \in S.nulled[g] THEN Throw(S)
        ELSE destroyEach(S, SelectSeq(S.buffers[g], Unshared), 1)

destroyBuffersOf(S, g, destroyBuffers) ==
    IF S.threw \/ ~destroyBuffers THEN S
    ELSE IF "buffers" \in S.nulled[g] THEN Throw(S)
    ELSE destroyEach(S, S.buffers[g], 1)

clearFields(S, g) ==
    IF S.threw THEN S
    ELSE [S EXCEPT !.attributes[g] = <<>>, !.buffers[g] = <<>>, !.indexBuffer[g] = NoBuffer,
                   !.nulled[g] = FieldNames]

\* The notification sent after the teardown instead of before it.
destroy_EmitLast(S, g, destroyBuffers) ==
    removeAllListeners(emitDestroy(clearFields(destroyBuffersOf(S, g, destroyBuffers), g), g), g)

destroy(S, g, destroyBuffers) ==
    clearFields(destroyBuffersOf(removeAllListeners(emitDestroy(S, g), g), g, destroyBuffers), g)

(***************************************************************************)
(* A Buffer announces a change: 'update' for new content, 'change' for a    *)
(* resize.  Its emitter calls the registered contexts in registration order.*)
(***************************************************************************)
RECURSIVE bufferEmitFrom(_, _, _)
bufferEmitFrom(S, gs, i) ==
    IF i > Len(gs) \/ S.threw THEN S
    ELSE bufferEmitFrom(onBufferUpdate(S, gs[i]), gs, i + 1)

bufferEmit(S, b, event) == bufferEmitFrom(S, S.bufListeners[b][event], 1)

\* History: which geometries this change concerns.
noteChange(S, b, event) ==
    [S EXCEPT !.pending = [g \in DOMAIN S.pending |->
                              S.pending[g] \/ (Live(S, g) /\ b \in AttrBuffers(S, g))],
              !.changed = [g \in DOMAIN S.changed |->
                              S.changed[g] \/ g \in Range(S.bufListeners[b][event])]]

bufferNotify(S, b, event, len) ==
    LET S1 == IF event = "change" THEN [S EXCEPT !.bufLen[b] = len] ELSE S
    IN  bufferEmit(noteChange(S1, b, event), b, event)

(***************************************************************************)
(* The color-dodge shader functions.  A float is an exact fraction, or one  *)
(* of the non-finite values; every input is in [0, 1], so nothing is        *)
(* negative.  What a division by zero yields is left to the backend: `z`.   *)
(***************************************************************************)
One == Number(1, 1)
NonFinite == {Value("Infinity", 0, 1), NaN}
Channels == {"r", "g", "b"}

fadd(a, b) ==
    IF a = NaN \/ b = NaN THEN NaN
    ELSE IF a \in NonFinite \/ b \in NonFinite THEN Value("Infinity", 0, 1)
    ELSE Number(a.num * b.den + b.num * a.den, a.den * b.den)
fsub(a, b) == Number(a.num * b.den - b.num * a.den, a.den * b.den)
fmul(a, b) ==
    IF a = NaN \/ b = NaN THEN NaN
    ELSE IF a \in NonFinite \/ b \in NonFinite
    THEN (IF a = Number(0, 1) \/ b = Number(0, 1) THEN NaN ELSE Value("Infinity", 0, 1))
    ELSE Number(a.num * b.num, a.den * b.den)
fdiv(a, b, z) == IF b.num = 0 THEN z ELSE Number(a.num * b.den, a.den * b.num)

vec3Scale(v, k) == [c \in Channels |-> fmul(v[c], k)]
vec3Add(v, w) == [c \in Channels |-> fadd(v[c], w[c])]
vec4(rgb, a) == [r |-> rgb.r, g |-> rgb.g, b |-> rgb.b, a |-> a]

\* gl: float colorDodge(float base, float blend)
gl_colorDodge(base, blend, z) == fdiv(base, fsub(One, blend), z)

\* gl: vec3 blendColorDodge(vec3 base, vec3 blend, float opacity)
gl_blendColorDodge(base, blend, opacity, z) ==
    LET blended == [r |-> gl_colorDodge(base.r, blend.r, z),
                    g |-> gl_colorDodge(base.g, blend.g, z),
                    b |-> gl_colorDodge(base.b, blend.b, z)]
    IN  vec3Add(vec3Scale(blended, opacity), vec3Scale(base, fsub(One, opacity)))

\* gl: fragColor = vec4(blendColorDodge(back.rgb, front.rgb, front.a), uBlend);
gl_main(back, front, uBlend, z) == vec4(gl_blendColorDodge(back, front, front.a, z), uBlend)

\* A scalar function that brightens by the sum instead of the quotient.
gpu_colorDodge_Additive(base, blend, z) == fadd(base, blend)

\* gpu: fn colorDodge(base: f32, blend: f32) -> f32
gpu_colorDodge(base, blend, z) == fdiv(base, fsub(One, blend), z)

\* gpu: fn blendColorDodge(base: vec3<f32>, blend: vec3<f32>, opacity: f32) -> vec3<f32>
gpu_blendColorDodge(base, blend, opacity, z) ==
    LET blended == [r |-> gpu_colorDodge(base.r, blend.r, z),
                    g |-> gpu_colorDodge(base.g, blend.g, z),
                    b |-> gpu_colorDodge(base.b, blend.b, z)]
    IN  vec3Add(vec3Scale(blended, opacity), vec3Scale(base, fsub(One, opacity)))

\* gpu: out = vec4<f32>(blendColorDodge(back.rgb, front.rgb, front.a), blendUniforms.uBlend);
gpu_main(back, front, uBlend, z) == vec4(gpu_blendColorDodge(back, front, front.a, z), uBlend)

(***************************************************************************)
(* Top-level calls.                                                         *)
(***************************************************************************)
Begin ==
    [attributes |-> attributes, buffers |-> buffers, indexBuffer |-> indexBuffer,
     nulled |-> nulled, boundsDirty |-> boundsDirty, listeners |-> listeners,
     bufListeners |-> bufListeners, bufLen |-> bufLen, bufDestroyed |-> bufDestroyed,
     nextBuffer |-> nextBuffer, nextListener |-> nextListener, pending |-> pending,
     changed |-> changed, got |-> got,
     threw |-> FALSE, val |-> Void, emitted |-> <<>>, reads |-> <<>>, seen |-> <<>>]

NoCall == [op |-> "new", g |-> 0, b |-> NoBuffer, destroyBuffers |-> FALSE]

\* What a destroy call found: kept with the call so that its effect can be stated.
Before(g) == [live |-> Live(Begin, g), destroyed |-> Destroyed(Begin),
              held |-> Range(buffers[g]) \cup RefBuffers(Begin, g),
              registered |-> {listeners[g].destroy[i].id : i \in 1..Len(listeners[g].destroy)}]
NoBefore == [live |-> FALSE, destroyed |-> {}, held |-> {}, registered |-> {}]

Commit(S, call, before) ==
    /\ attributes' = S.attributes
    /\ buffers' = S.buffers
    /\ indexBuffer' = S.indexBuffer
    /\ nulled' = S.nulled
    /\ boundsDirty' = S.boundsDirty
    /\ listeners' = S.listeners
    /\ bufListeners' = S.bufListeners
    /\ bufLen' = S.bufLen
    /\ bufDestroyed' = S.bufDestroyed
    /\ nextBuffer' = S.nextBuffer
    /\ nextListener' = S.nextListener
    /\ pending' = S.pending
    /\ changed' = S.changed
    /\ got' = S.got
    /\ last' = [op |-> call.op, g |-> call.g, b |-> call.b,
                destroyBuffers |-> call.destroyBuffers,
                threw |-> S.threw, val |-> S.val, emitted |-> S.emitted,
                reads |-> S.reads, seen |-> S.seen, before |-> before]
    /\ UNCHANGED <<pixel, fragColor, out>>

Call(op, g) == [NoCall EXCEPT !.op = op, !.g = g]

\* A raw array (wrapped into a new Buffer) or a Buffer that exists.
BufferInputsOf(lens) ==
    {[raw |-> TRUE, len |-> n, buffer |-> NoBuffer] : n \in {m \in lens : nextBuffer <= NumBuffers}}
    \cup {[raw |-> FALSE, len |-> 0, buffer |-> b] : b \in 1..(nextBuffer - 1)}
BufferInputs == BufferInputsOf({RawLen})

AttributeOptionsOf(inputs, formats) ==
    {[input |-> i, size |-> f.size, stride |-> f.stride] : i \in inputs, f \in formats}
AttributeOptions == AttributeOptionsOf(BufferInputs, AttributeFormats)

AddAttribute(g, name, option) ==
    LET S == addAttribute(Begin, g, name, option)
    IN  /\ Len(S.buffers[g]) <= MaxBuffersLen
        /\ Commit(S, Call("addAttribute", g), NoBefore)

AddIndex(g, input) ==
    LET S == addIndex(Begin, g, input)
    IN  /\ Len(S.buffers[g]) <= MaxBuffersLen
        /\ Commit(S, [Call("addIndex", g) EXCEPT !.b = input.buffer], NoBefore)

GetAttribute(g, id) == Commit(getAttribute(Begin, g, id), Call("getAttribute", g), NoBefore)

GetIndex(g) == Commit(getIndex(Begin, g), Call("getIndex", g), NoBefore)

GetBuffer(g, id) == Commit(getBuffer(Begin, g, id), Call("getBuffer", g), NoBefore)

GetSize(g) == Commit(getSize(Begin, g), Call("getSize", g), NoBefore)

ReadBounds(g) == Commit(bounds(Begin, g), Call("bounds", g), NoBefore)

Destroy(g, destroyBuffers) ==
    Commit(destroy(Begin, g, destroyBuffers),
           [Call("destroy", g) EXCEPT !.destroyBuffers = destroyBuffers], Before(g))

On(g, event, kind) ==
    /\ nextListener <= MaxListeners
    /\ Commit(geometryOn(Begin, g, event, kind), Call("on", g), NoBefore)

\* buffer.update(): new content, same size.
BufferUpdate(b) ==
    /\ b < nextBuffer
    /\ ~bufDestroyed[b]
    /\ Commit(bufferNotify(Begin, b, "update", bufLen[b]), [NoCall EXCEPT !.op = "update", !.b = b], NoBefore)

\* A resize of the buffer's data.
BufferResize(b, len) ==
    /\ b < nextBuffer
    /\ ~bufDestroyed[b]
    /\ Commit(bufferNotify(Begin, b, "change", len), [NoCall EXCEPT !.op = "change", !.b = b], NoBefore)

InitOf(G) ==
    /\ attributes = [g \in G |-> <<>>]
    /\ buffers = [g \in G |-> <<>>]
    /\ indexBuffer = [g \in G |-> NoBuffer]
    /\ nulled = [g \in G |-> {}]
    /\ boundsDirty = [g \in G |-> TRUE]
    /\ listeners = [g \in G |-> [update |-> <<>>, destroy |-> <<>>]]
    /\ bufListeners = [b \in BufferIds |-> [update |-> <<>>, change |-> <<>>]]
    /\ bufLen = [b \in BufferIds |-> 0]
    /\ bufDestroyed = [b \in BufferIds |-> FALSE]
    /\ nextBuffer = 1
    /\ nextListener = 1
    /\ pending = [g \in G |-> FALSE]
    /\ changed = [g \in G |-> TRUE]
    /\ got = [l \in ListenerIds |-> 0]
    /\ last = [op |-> "new", g |-> 0, b |-> NoBuffer, destroyBuffers |-> FALSE,
               threw |-> FALSE, val |-> Void, emitted |-> <<>>, reads |-> <<>>,
               seen |-> <<>>, before |-> NoBefore]

\* No fragment has been shaded.
Unset == Value("unset", 0, 1)
Unshaded == pixel = Unset /\ fragColor = Unset /\ out = Unset

Init == InitOf({1}) /\ Unshaded

Next ==
    \/ \E g \in Geoms, name \in Names, option \in AttributeOptions : AddAttribute(g, name, option)
    \/ \E g \in Geoms, input \in BufferInputs : AddIndex(g, input)
    \/ \E g \in Geoms, id \in Names : GetAttribute(g, id)
    \/ \E g \in Geoms : GetIndex(g)
    \/ \E g \in Geoms, id \in Names : GetBuffer(g, id)
    \/ \E g \in Geoms : GetSize(g)
    \/ \E g \in Geoms : ReadBounds(g)
    \/ \E g \in Geoms, destroyBuffers \in BOOLEAN : Destroy(g, destroyBuffers)
    \/ \E g \in Geoms : On(g, "update", "read")
    \/ \E g \in Geoms : On(g, "destroy", "rec")
    \/ \E b \in BufferIds : BufferUpdate(b)
    \/ \E b \in BufferIds, len \in Lens : BufferResize(b, len)

Spec == Init /\ [][Next]_vars

(***************************************************************************)
(* getSize over attributes of every format, on arrays of both lengths.      *)
(***************************************************************************)
NextSize ==
    \/ \E g \in Geoms, name \in Names, option \in AttributeOptionsOf(BufferInputsOf(Lens), SizeFormats) :
           AddAttribute(g, name, option)
    \/ \E g \in Geoms : GetSize(g)
    \/ \E b \in BufferIds, len \in Lens : BufferResize(b, len)

SpecSize == Init /\ [][NextSize]_vars

(***************************************************************************)
(* Two Geometries over the same Buffers.                                    *)
(***************************************************************************)
InitShared == InitOf({1, 2}) /\ Unshaded

Room(g) == "buffers" \in nulled[g] \/ Len(buffers[g]) < MaxSharedLen

NextShared ==
    \/ \E g \in Geoms, option \in AttributeOptions : Room(g) /\ AddAttribute(g, "aPosition", option)
    \/ \E g \in Geoms, input \in BufferInputs : Room(g) /\ AddIndex(g, input)
    \/ \E g \in Geoms : ReadBounds(g)
    \/ \E g \in Geoms, destroyBuffers \in BOOLEAN : Destroy(g, destroyBuffers)
    \/ \E b \in BufferIds : BufferUpdate(b)

SpecShared == InitShared /\ [][NextShared]_vars

(***************************************************************************)
(* One fragment shaded by both backends: the inputs are drawn at the start, *)
(* each backend's program runs its main over them.                          *)
(***************************************************************************)
Levels == {Number(k, Denominator) : k \in 0..Denominator}
Pixels == {[back |-> [r |-> br, g |-> bg, b |-> bb],
            front |-> [r |-> fr, g |-> fg, b |-> fb, a |-> fa],
            uBlend |-> u] : br \in Levels, bg \in Levels, bb \in Levels,
                            fr \in Levels, fg \in Levels, fb \in Levels,
                            fa \in Levels, u \in Levels}

RunGl(z) ==
    /\ fragColor' = gl_main(pixel.back, pixel.front, pixel.uBlend, z)
    /\ UNCHANGED <<attributes, buffers, indexBuffer, nulled, boundsDirty, listeners, bufListeners,
                   bufLen, bufDestroyed, nextBuffer, nextListener, pending, changed, got, last,
                   pixel, out>>

RunGpu(z) ==
    /\ out' = gpu_main(pixel.back, pixel.front, pixel.uBlend, z)
    /\ UNCHANGED <<attributes, buffers, indexBuffer, nulled, boundsDirty, listeners, bufListeners,
                   bufLen, bufDestroyed, nextBuffer, nextListener, pending, changed, got, last,
                   pixel, fragColor>>

InitBlend == InitOf({1}) /\ pixel \in Pixels /\ fragColor = Unset /\ out = Unset

NextBlend ==
    \/ \E z \in NonFinite : RunGl(z)
    \/ \E z \in NonFinite : RunGpu(z)

SpecBlend == InitBlend /\ [][NextBlend]_vars

(***************************************************************************)
(* Properties.                                                              *)
(***************************************************************************)
Now == Begin
IsLive(g) == Live(Now, g)
IsDestroyed(g) == "attributes" \in nulled[g]
Recomputed(g) == \E i \in 1..Len(last.reads) :
                     last.reads[i].g = g /\ last.reads[i].calc = 1 /\ ~last.reads[i].threw

\* C1: when a buffer that a current attribute of a live Geometry references announces
\* 'update' or 'change', the bounds are dirty when that call returns (or were recomputed
\* after the change, inside the call), whichever way the buffer came into the Geometry.
C1_DirtyAfterBufferChange ==
    last.op \in Events =>
        \A g \in Geoms : (IsLive(g) /\ last.b \in AttrBuffers(Now, g)) => (boundsDirty[g] \/ Recomputed(g))

\* C2: no buffer occurs at two positions of `buffers` of a live Geometry.
C2_BuffersDistinct ==
    \A g \in Geoms : IsLive(g) => Cardinality(Range(buffers[g])) = Len(buffers[g])

\* C3: once destroyed, addAttribute, getAttribute, getSize and the bounds getter all throw.
C3_UseAfterDestroyThrows ==
    (last.op \in {"addAttribute", "getAttribute", "getSize", "bounds"} /\ IsDestroyed(last.g)) => last.threw

\* C4: a destroyed Geometry is registered on no buffer, for neither event.
C4_DestroyUnsubscribes ==
    \A g \in Geoms : IsDestroyed(g) =>
        \A b \in BufferIds, event \in Events : g \notin Range(bufListeners[b][event])

\* C5: the flag is dirty at construction; on a live Geometry it goes from dirty to clean
\* only in a call in which the bounds were read and the calculator ran to completion; and
\* it is never clean while a change of an attribute's buffer awaits its recomputation.
C5_DirtyFlagDiscipline ==
    /\ \A g \in Geoms : boundsDirty[g]
    /\ [][\A g \in Geoms : (IsLive(g) /\ boundsDirty[g] /\ ~boundsDirty'[g]) =>
              \E i \in 1..Len(last'.reads) :
                  last'.reads[i].g = g /\ last'.reads[i].calc = 1 /\ ~last'.reads[i].threw]_vars
    /\ [](\A g \in Geoms : (IsLive(g) /\ ~boundsDirty[g]) => ~pending[g])

\* C6: every bounds read of a live Geometry runs the calculator exactly once if the
\* Geometry was constructed, or a subscribed buffer announced a change, since the read
\* before it, and not at all otherwise; either way it returns the Geometry's one Bounds.
C6_BoundsCaching ==
    \A i \in 1..Len(last.reads) :
        LET r == last.reads[i]
        IN  r.live => /\ r.calc = (IF r.changed THEN 1 ELSE 0)
                      /\ r.cached
                      /\ ~r.threw

C6_Witness ==
    /\ last.op \in Events
    /\ Len(last.reads) = 1
    /\ last.reads[1].live /\ last.reads[1].calc = 1 /\ last.reads[1].cached
    /\ ~boundsDirty[last.reads[1].g]

\* C7: when a buffer that a live Geometry references (through an attribute or as its
\* index buffer) announces 'update' or 'change', the Geometry emits 'update' in that call.
C7_UpdateEmitted ==
    last.op \in Events =>
        \A g \in Geoms : (IsLive(g) /\ last.b \in RefBuffers(Now, g)) => g \in Range(last.emitted)

\* C8: getSize of a live Geometry is 0 without attributes, and otherwise the integer
\* floor(length / perVertex) of the first attribute in insertion order, perVertex being
\* its declared size, or stride / 4 when no size is declared.
C8_Expected(g) ==
    LET attribute == attributes[g][1]
        perVertexCount == IF attribute.size # Absent THEN attribute.size ELSE attribute.stride \div 4
    IN  Value("number", bufLen[attribute.buffer] \div perVertexCount, 1)

C8_GetSizeFloor ==
    (last.op = "getSize" /\ IsLive(last.g)) =>
        IF Len(attributes[last.g]) = 0 THEN last.val = Value("number", 0, 1)
        ELSE (attributes[last.g][1].size # Absent \/ attributes[last.g][1].stride # Absent) =>
                 last.val = C8_Expected(last.g)

\* C9: destroy(false) destroys no buffer; destroy(true) of a live Geometry leaves every
\* buffer it held in `buffers`, as an attribute's buffer or as index buffer, destroyed.
C9_DestroyBuffersFlag ==
    last.op = "destroy" =>
        /\ ~last.destroyBuffers => Destroyed(Now) = last.before.destroyed
        /\ (last.destroyBuffers /\ last.before.live) => last.before.held \subseteq Destroyed(Now)

C9_Witness ==
    /\ last.op = "destroy" /\ last.destroyBuffers /\ last.before.live
    /\ Cardinality(last.before.held) = 2
    /\ last.before.destroyed = {}
    /\ Destroyed(Now) = last.before.held

\* C10: a listener registered on a live Geometry receives 'destroy', with the Geometry as
\* payload, exactly once however often destroy is called, and receives it before the
\* teardown: no field is null yet and no buffer has been destroyed by the call.
C10_DestroyDeliveredOnce ==
    /\ \A l \in ListenerIds : got[l] <= 1
    /\ last.op = "destroy" =>
        /\ \A i \in 1..Len(last.seen) :
               LET d == last.seen[i]
               IN  d.live => /\ d.payload = last.g
                             /\ d.nulled = {}
                             /\ d.destroyed = last.before.destroyed
        /\ \A l \in last.before.registered :
               got[l] = 1 /\ \E i \in 1..Len(last.seen) : last.seen[i].id = l

C10_Witness ==
    /\ last.op = "destroy" /\ last.destroyBuffers
    /\ IsDestroyed(last.g)
    /\ ~last.before.live
    /\ \E l \in ListenerIds : got[l] = 1
    /\ Destroyed(Now) # {}

IsPrefix(s, t) == Len(s) <= Len(t) /\ SubSeq(t, 1, Len(s)) = s

\* The buffers of the attributes that the step from the current state overwrites.
Overwritten(g) ==
    {attributes[g][i].buffer : i \in {j \in 1..Len(attributes[g]) : attributes'[g][j] # attributes[g][j]}}

\* C11: while a Geometry is live its `buffers` only grows; when addAttribute overwrites a
\* name, the buffer of the attribute it replaces stays in `buffers` and the Geometry is
\* subscribed to it for both notifications afterwards, so that a later notification of
\* that buffer marks the bounds dirty and makes the Geometry emit 'update'.
C11_StaleBufferKept ==
    /\ [][\A g \in Geoms : (IsLive(g) /\ "attributes" \notin nulled'[g]) =>
              /\ IsPrefix(buffers[g], buffers'[g])
              /\ \A b \in Overwritten(g), event \in Events :
                     b \in Range(buffers'[g]) /\ g \in Range(bufListeners'[b][event])]_vars
    /\ [](last.op \in Events =>
              \A g \in Geoms : (IsLive(g) /\ g \in Range(bufListeners[last.b][last.op])) =>
                  (g \in Range(last.emitted) /\ (boundsDirty[g] \/ Recomputed(g))))

\* C12: addIndex on a live Geometry stores the Buffer it was given, or the new Buffer that
\* wraps the array it was given, as `indexBuffer`, appends exactly that one entry to
\* `buffers` (so an index buffer it replaces stays there), and leaves `attributes` and the
\* dirty flag as they were; getIndex returns the stored index buffer.
C12_AddIndexAppends ==
    /\ [][\A g \in Geoms : (last'.op = "addIndex" /\ last'.g = g /\ IsLive(g)) =>
              /\ ~last'.threw
              /\ indexBuffer'[g] = (IF last'.b # NoBuffer THEN last'.b ELSE nextBuffer)
              /\ nextBuffer' = (IF last'.b # NoBuffer THEN nextBuffer ELSE nextBuffer + 1)
              /\ buffers'[g] = Append(buffers[g], indexBuffer'[g])
              /\ attributes'[g] = attributes[g]
              /\ boundsDirty'[g] = boundsDirty[g]]_vars
    /\ []((last.op = "getIndex" /\ IsLive(last.g)) =>
              (~last.threw /\ last.val = BufferRef(indexBuffer[last.g])))

\* A second addIndex: both index buffers are in `buffers`, the later one is the index.
C12_Witness ==
    /\ last.op = "addIndex" /\ IsLive(last.g)
    /\ attributes[last.g] = <<>>
    /\ Len(buffers[last.g]) = 2
    /\ buffers[last.g][1] # buffers[last.g][2]
    /\ indexBuffer[last.g] = buffers[last.g][2]
    /\ ~boundsDirty[last.g]

\* The level k of the fraction k / Denominator.
Scaled(v) == (v.num * Denominator) \div v.den

\* base / (1 - blend) * opacity + base * (1 - opacity), over the common denominator.
C13_Expected(c) ==
    LET base == Scaled(pixel.back[c])
        blend == Scaled(pixel.front[c])
        opacity == Scaled(pixel.front.a)
    IN  Number(base * opacity * Denominator + base * (Denominator - opacity) * (Denominator - blend),
               Denominator * Denominator * (Denominator - blend))

\* C13: on every channel whose blend value is not 1, the gl main and the gpu main both
\* write base / (1 - blend) * opacity + base * (1 - opacity), with base = back, blend =
\* front and opacity = front.a, and so write the same; both write the uniform uBlend as
\* alpha.
C13_ColorDodgeBackendsAgree ==
    /\ fragColor # Unset =>
           /\ fragColor.a = pixel.uBlend
           /\ \A c \in Channels : pixel.front[c] # One => fragColor[c] = C13_Expected(c)
    /\ out # Unset =>
           /\ out.a = pixel.uBlend
           /\ \A c \in Channels : pixel.front[c] # One => out[c] = C13_Expected(c)
    /\ (fragColor # Unset /\ out # Unset) =>
           \A c \in Channels : pixel.front[c] # One => fragColor[c] = out[c]

\* Both backends ran on a fragment that is partly opaque, is brightened on every channel,
\* and whose alpha differs from the uniform.
C13_Witness ==
    /\ fragColor # Unset /\ out # Unset
    /\ fragColor = out
    /\ pixel.front.a \notin {Number(0, 1), One}
    /\ pixel.uBlend # pixel.front.a
    /\ \A c \in Channels : /\ pixel.front[c] \notin {Number(0, 1), One}
                            /\ pixel.back[c] # Number(0, 1)
                            /\ fragColor[c] # pixel.back[c]

\* C14: destroy(true) of a live Geometry destroys every buffer it shares with another
\* live Geometry, and changes none of that Geometry's fields: its attributes, its
\* `buffers`, its index buffer and its dirty flag are as before, and none is null.
C14_DestroySharedBuffer ==
    [][\A g1 \in Geoms, g2 \in Geoms :
          (/\ g1 # g2 /\ IsLive(g1) /\ IsLive(g2)
           /\ last'.op = "destroy" /\ last'.g = g1 /\ last'.destroyBuffers) =>
              /\ \A b \in RefBuffers(Now, g1) \cap RefBuffers(Now, g2) : bufDestroyed'[b]
              /\ attributes'[g2] = attributes[g2]
              /\ buffers'[g2] = buffers[g2]
              /\ indexBuffer'[g2] = indexBuffer[g2]
              /\ boundsDirty'[g2] = boundsDirty[g2]
              /\ nulled'[g2] = {}]_vars

\* After destroy(true) of one Geometry: the other is live with clean bounds, and the
\* buffer its attribute references was destroyed by that call.
C14_Witness ==
    /\ last.op = "destroy" /\ last.destroyBuffers /\ last.before.live
    /\ \E g2 \in Geoms \ {last.g} :
           /\ IsLive(g2) /\ ~boundsDirty[g2]
           /\ \E b \in AttrBuffers(Now, g2) :
                  b \in last.before.held /\ b \notin last.before.destroyed /\ bufDestroyed[b]

\* How often Geometry g emitted 'update' in the last call.
Emissions(g) == Cardinality({i \in 1..Len(last.emitted) : last.emitted[i] = g})

\* The last call, a buffer's notification, reached g: bounds dirty, one 'update' emitted.
Notified(g) == (boundsDirty[g] \/ Recomputed(g)) /\ Emissions(g) = 1

\* C15: when a buffer announces a change, two live Geometries that both reference it
\* through an attribute are both marked dirty and each emits its own 'update'; and a
\* live Geometry that references it through an attribute is marked dirty and emits
\* 'update' also when the other Geometry has been destroyed with destroy(false).
C15_SharedBufferNotifiesAll ==
    last.op \in Events =>
        \A g1 \in Geoms, g2 \in Geoms :
            (g1 # g2 /\ IsLive(g1) /\ last.b \in AttrBuffers(Now, g1)) =>
                /\ (IsLive(g2) /\ last.b \in AttrBuffers(Now, g2)) => (Notified(g1) /\ Notified(g2))
                /\ (IsDestroyed(g2) /\ ~bufDestroyed[last.b]) => Notified(g1)

Subscriptions(g, b, event) ==
    Cardinality({i \in 1..Len(bufListeners[b][event]) : bufListeners[b][event][i] = g})

\* C16: a Geometry is registered at most once on a buffer for each notification kind,
\* whatever was added and re-added; so a notification of a buffer it is subscribed to
\* makes it emit 'update' exactly once, and no notification makes it emit more than once.
C16_SubscribedOnce ==
    /\ \A g \in Geoms, b \in BufferIds, event \in Events : Subscriptions(g, b, event) <= 1
    /\ last.op \in Events =>
           \A g \in Geoms :
               Emissions(g) = (IF g \in Range(bufListeners[last.b][last.op]) THEN 1 ELSE 0)

\* A notification of a buffer that two attribute names of a live Geometry reference.
C16_Witness ==
    /\ last.op \in Events
    /\ \E g \in Geoms :
           /\ IsLive(g)
           /\ Len(attributes[g]) = 2
           /\ \A i \in 1..2 : attributes[g][i].buffer = last.b
           /\ Subscriptions(g, last.b, last.op) = 1
           /\ Emissions(g) = 1

\* C17: a bounds read that an 'update' listener of a live Geometry makes while a buffer's
\* notification is being handled runs the calculator, or follows a read of the same
\* notification that ran it: it never returns what was cached before the change.
C17_DirtyBeforeListeners ==
    last.op \in Events =>
        \A i \in 1..Len(last.reads) :
            LET r == last.reads[i]
            IN  r.live => /\ ~r.threw
                          /\ \/ r.calc = 1
                             \/ \E j \in 1..(i - 1) : last.reads[j].g = r.g /\ last.reads[j].calc = 1

\* A resize of the position buffer whose listener read the bounds and had them recomputed.
C17_Witness ==
    /\ last.op = "change"
    /\ Len(last.reads) >= 1
    /\ last.reads[1].live /\ last.reads[1].calc = 1 /\ ~last.reads[1].threw
    /\ last.b \in AttrBuffers(Now, last.reads[1].g)
    /\ last.reads[1].g \in Range(last.emitted)
    /\ ~pending[last.reads[1].g]

\* C18: in every state of a live Geometry the buffer of every stored attribute is in
\* `buffers`, the index buffer is in `buffers` once it is set, and getBuffer of every
\* stored name returns a Buffer that is in `buffers`.
C18_ReferencedBuffersListed ==
    \A g \in Geoms : IsLive(g) =>
        /\ AttrBuffers(Now, g) \subseteq Range(buffers[g])
        /\ indexBuffer[g] # NoBuffer => indexBuffer[g] \in Range(buffers[g])
        /\ \A id \in Names : attributeAt(Now, g, id) # {} =>
               LET S == getBuffer(Now, g, id)
               IN  ~S.threw /\ S.val.kind = "buffer" /\ S.val.num \in Range(buffers[g])
        /\ (last.op = "getBuffer" /\ last.g = g /\ last.val.kind = "buffer") =>
               last.val.num \in Range(buffers[g])

\* getBuffer answered on a live Geometry with two attributes and an index buffer of its own.
C18_Witness ==
    /\ last.op = "getBuffer" /\ IsLive(last.g) /\ last.val.kind = "buffer"
    /\ Len(attributes[last.g]) = 2
    /\ indexBuffer[last.g] # NoBuffer
    /\ indexBuffer[last.g] \notin AttrBuffers(Now, last.g)
    /\ last.val.num \in Range(buffers[last.g])

====
